---- MODULE Spec2Model ----
(***************************************************************************)
(* Authentication and session-token subsystem of the NestJS starter        *)
(* template: AuthService (register, login, refreshTokens, logout,          *)
(* logoutAll, updateUserRole, cleanupExpiredTokens), JwtTokenService,      *)
(* JwtStrategy and the role-gated endpoints of AuthController, with the    *)
(* Stripe checkout handler behind the same guard and the scheduled jobs of *)
(* CronExampleService.                                                     *)
(*                                                                         *)
(* Time is counted in seconds, the resolution of a JWT's iat and exp.      *)
(***************************************************************************)
EXTENDS Integers, Sequences, FiniteSets, TLC

VARIABLES
    users,          \* the User table: a sequence, a user's id is its index
    refreshTokens,  \* the RefreshToken table: a set of rows, token unique
    jwtConfig,      \* configuration().jwt as read by ConfigService
    now,            \* the wall clock, in seconds
    issued,         \* the token pairs handed out to clients so far
    reqs,           \* in-flight refreshTokens calls, one per request slot
    last,           \* the last completed call and what its caller saw
    schedulerRegistry,  \* SchedulerRegistry's cron jobs: rows of name and job
    runningJobs,    \* the CronJob objects whose timer is armed
    jobsCreated,    \* how many CronJob objects were constructed so far
    sockets,        \* the socket.io clients: connected, handshake, data.user
    connectedUsers, \* SocketManagerService.connectedUsers: socket id -> user
    userSocketMap,  \* SocketManagerService.userSocketMap: user id -> socket id
    stripeConfig    \* configuration().stripe as read by ConfigService

\* the state of the auth module, and of the modules beside it
authModule == <<users, refreshTokens, jwtConfig, now, issued, reqs>>
cronModule == <<schedulerRegistry, runningJobs, jobsCreated>>
websocketModule == <<sockets, connectedUsers, userSocketMap>>
modules == <<cronModule, websocketModule, stripeConfig>>

vars == <<authModule, last, modules>>

----------------------------------------------------------------------------
(* Bounds of the model *)

MaxUsers == 2
MaxIssued == 3
MaxSeconds == 2
MaxJobs == 3
MaxSockets == 2

(* Program constants *)

SaltRounds == 12
RefreshTokenDays == 7
SecondsPerDay == 86400
AccessExpiration == 900
DefaultRefreshExpiration == 604800

Roles == {"USER", "ADMIN", "MODERATOR"}

\* faulty variant: the role column defaults to ADMIN
DefaultRoleAdmin == "ADMIN"

DefaultRole == "USER"
DefaultIsActive == TRUE

Emails == {"a@x.com", "b@x.com"}
Usernames == {"alice", "bob"}
Passwords == {"Password1A", "Password2B"}
UnknownEmail == "nobody@x.com"

AccessSecret == "JWT_ACCESS_SECRET"
RefreshSecret == "JWT_REFRESH_SECRET"

\* the value of a secret the environment does not set
Undefined == "undefined"

\* JWT_REFRESH_EXPIRATION unset ('7d'), or set to '30d'
LongRefreshExpiration == 30 * SecondsPerDay

RefreshExpirations == {DefaultRefreshExpiration, LongRefreshExpiration}

MaxNow == RefreshTokenDays * SecondsPerDay + MaxSeconds

----------------------------------------------------------------------------
(* Credential hasher: bcrypt.hash / bcrypt.compare.  The salt is left out: *)
(* compare accepts exactly the plaintext the hash was made from.           *)

BcryptHash(password, rounds) == <<"bcrypt", rounds, password>>

BcryptCompare(password, hash) == hash = BcryptHash(password, hash[2])

----------------------------------------------------------------------------
(* Token codec: NestJwtService.signAsync / verifyAsync (HS256).  A token   *)
(* is a function of the payload, the secret, iat and exp alone: the same   *)
(* payload signed twice within one second gives the same string.           *)

Payload(user) ==
    [sub |-> user.id, email |-> user.email,
     username |-> user.username, role |-> user.role]

SignAsync(payload, secret, expiresIn, t) ==
    [secret |-> secret, sub |-> payload.sub, email |-> payload.email,
     username |-> payload.username, role |-> payload.role,
     iat |-> t, exp |-> t + expiresIn]

\* a string no secret of the deployment has signed
GarbageToken ==
    [secret |-> "forged", sub |-> 0, email |-> "", username |-> "",
     role |-> "USER", iat |-> 0, exp |-> 0]

\* faulty variant: the signature is not checked, only exp
VerifyAsyncUnsigned(token, secret, t) == t < token.exp

VerifyAsync(token, secret, t) == token.secret = secret /\ t < token.exp

\* generateTokenPair throws unless both secrets are set
SecretsConfigured(cfg) ==
    cfg.accessSecret # Undefined /\ cfg.refreshSecret # Undefined

GenerateTokenPair(cfg, payload, t) ==
    [accessToken |-> SignAsync(payload, cfg.accessSecret, cfg.accessExpiration, t),
     refreshToken |-> SignAsync(payload, cfg.refreshSecret, cfg.refreshExpiration, t)]

VerifyAccessToken(cfg, token, t) ==
    cfg.accessSecret # Undefined /\ VerifyAsync(token, cfg.accessSecret, t)

VerifyRefreshToken(cfg, token, t) ==
    cfg.refreshSecret # Undefined /\ VerifyAsync(token, cfg.refreshSecret, t)

----------------------------------------------------------------------------
(* Responses *)

NoTokens == [accessToken |-> GarbageToken, refreshToken |-> GarbageToken]

\* no user: null
NoUser == [id |-> 0, email |-> "", username |-> "", role |-> "USER",
           isActive |-> FALSE]

\* faulty variant: the row is returned as stored
WithPassword(user) == user

\* const { password, ...userWithoutPassword } = user
WithoutPassword(user) ==
    [id |-> user.id, email |-> user.email, username |-> user.username,
     role |-> user.role, isActive |-> user.isActive]

\* rows: how many rows the handler's deleteMany removed; user: the user in
\* the response body; userId: the user id the handler read from request.user
Response(op, arg, kind, message, tokens) ==
    [op |-> op, arg |-> arg, kind |-> kind, message |-> message,
     tokens |-> tokens, rows |-> 0, user |-> NoUser, userId |-> NoUser.id,
     events |-> {}, calls |-> <<>>]

WithUser(res, user) == [res EXCEPT !.user = user]

Ok == "ok"
Unauthorized == "Unauthorized"
Conflict == "Conflict"
NotFound == "NotFound"
Forbidden == "Forbidden"
InternalError == "InternalServerError"
BadRequest == "BadRequest"

----------------------------------------------------------------------------
(* Store helpers: the Prisma calls of AuthService *)

UserIds(us) == 1..Len(us)

\* faulty variant: the existence query matches on the email alone
UserExistsByEmailOnly(us, email, username) ==
    \E i \in UserIds(us) : us[i].email = email

UserExists(us, email, username) ==
    \E i \in UserIds(us) : us[i].email = email \/ us[i].username = username

UserByEmail(us, email) == {i \in UserIds(us) : us[i].email = email}

FindToken(rts, token) == {r \in rts : r.token = token}

DeleteManyByToken(rts, token) == {r \in rts : r.token # token}

\* faulty variant: delete in place of deleteMany, one row of the user goes
DeleteFirstByUser(rts, userId) ==
    IF \E r \in rts : r.userId = userId
    THEN rts \ {CHOOSE r \in rts : r.userId = userId}
    ELSE rts

DeleteManyByUser(rts, userId) == {r \in rts : r.userId # userId}

DeleteManyExpired(rts, t) == {r \in rts : ~(r.expiresAt < t)}

\* refreshToken.create: the unique key on token rejects a second row
TokenTaken(rts, token) == \E r \in rts : r.token = token

StoreRefreshToken(rts, userId, token, t) ==
    rts \cup {[token |-> token, userId |-> userId,
               expiresAt |-> t + RefreshTokenDays * SecondsPerDay]}

----------------------------------------------------------------------------
(* AuthService: each handler as the outcome it computes from the tables,   *)
(* [res |-> what the caller sees, users, rts |-> the tables afterwards].   *)

Outcome(res, us, rts) == [res |-> res, users |-> us, rts |-> rts]

NewUser(us, email, username, password) ==
    [id |-> Len(us) + 1, email |-> email, username |-> username,
     password |-> BcryptHash(password, SaltRounds),
     role |-> DefaultRole, isActive |-> DefaultIsActive]

Register(us, rts, cfg, email, username, password, t) ==
    IF UserExists(us, email, username)
    THEN Outcome(Response("register", <<email, username>>, Conflict,
                          "User with this email or username already exists",
                          NoTokens), us, rts)
    ELSE LET user == NewUser(us, email, username, password)
             created == Append(us, user)
             tokens == GenerateTokenPair(cfg, Payload(user), t)
         IN  IF ~SecretsConfigured(cfg) \/ TokenTaken(rts, tokens.refreshToken)
             THEN Outcome(Response("register", <<email, username>>, InternalError,
                                   "Internal server error", NoTokens),
                          created, rts)
             ELSE Outcome(WithUser(Response("register", <<email, username>>, Ok,
                                            "", tokens),
                                   WithoutPassword(user)),
                          created,
                          StoreRefreshToken(rts, user.id, tokens.refreshToken, t))

Login(us, rts, cfg, email, password, t) ==
    LET found == UserByEmail(us, email)
        fail(message) ==
            Outcome(Response("login", <<email, password>>, Unauthorized, message,
                             NoTokens), us, rts)
    IN  IF found = {}
        THEN fail("Invalid credentials")
        ELSE LET user == us[CHOOSE i \in found : TRUE]
                 tokens == GenerateTokenPair(cfg, Payload(user), t)
             IN  IF ~user.isActive
                 THEN fail("Account is disabled")
                 ELSE IF ~BcryptCompare(password, user.password)
                 THEN fail("Invalid credentials")
                 ELSE IF ~SecretsConfigured(cfg)
                         \/ TokenTaken(rts, tokens.refreshToken)
                 THEN Outcome(Response("login", <<email, password>>, InternalError,
                                       "Internal server error", NoTokens), us, rts)
                 ELSE Outcome(WithUser(Response("login", <<email, password>>, Ok,
                                                "", tokens),
                                       WithoutPassword(user)),
                              us,
                              StoreRefreshToken(rts, user.id, tokens.refreshToken, t))

\* faulty variant: the row's expiresAt is not looked at
RefreshAcceptsNoExpiry(us, rts, cfg, token, t) ==
    /\ VerifyRefreshToken(cfg, token, t)
    /\ \E r \in FindToken(rts, token) : us[r.userId].isActive

\* refreshTokens up to the two throws inside the try: the codec check, the
\* row lookup with its expiry test, and the owner's isActive
RefreshAccepts(us, rts, cfg, token, t) ==
    /\ VerifyRefreshToken(cfg, token, t)
    /\ \E r \in FindToken(rts, token) :
          /\ ~(r.expiresAt < t)
          /\ us[r.userId].isActive

\* what is thrown inside the try when the call is not accepted
Thrown(kind, message) == [kind |-> kind, message |-> message]

RefreshError(us, rts, cfg, token, t) ==
    IF cfg.refreshSecret = Undefined
    THEN Thrown(InternalError, "JWT refresh secret must be configured")
    ELSE IF token.secret # cfg.refreshSecret
    THEN Thrown(InternalError, "invalid signature")
    ELSE IF ~(t < token.exp)
    THEN Thrown(InternalError, "jwt expired")
    ELSE IF \A r \in FindToken(rts, token) : r.expiresAt < t
    THEN Thrown(Unauthorized, "Invalid or expired refresh token")
    ELSE Thrown(Unauthorized, "Account is disabled")

\* faulty variant: the catch block rethrows what it caught
RefreshRethrow(token, error) ==
    Response("refreshTokens", token, error.kind, error.message, NoTokens)

\* the catch block: whatever was thrown, the caller gets one exception
RefreshCatch(token, error) ==
    Response("refreshTokens", token, Unauthorized, "Invalid refresh token",
             NoTokens)

\* faulty variant: the new pair is signed from the claims of the old token
RefreshClaimsOfToken(user, token) ==
    [sub |-> token.sub, email |-> token.email, username |-> token.username,
     role |-> token.role]

\* the claims of the new pair: the row's user as included by findUnique
RefreshClaims(user, token) == Payload(user)

RefreshTokens(us, rts, cfg, token, t) ==
    IF ~RefreshAccepts(us, rts, cfg, token, t)
    THEN Outcome(RefreshCatch(token, RefreshError(us, rts, cfg, token, t)),
                 us, rts)
    ELSE LET storedToken == CHOOSE r \in FindToken(rts, token) : TRUE
             user == us[storedToken.userId]
             tokens == GenerateTokenPair(cfg, RefreshClaims(user, token), t)
             deleted == rts \ {storedToken}
         IN  IF ~SecretsConfigured(cfg)
             THEN Outcome(RefreshCatch(token,
                              Thrown(InternalError, "JWT secrets must be configured")),
                          us, rts)
             ELSE IF TokenTaken(deleted, tokens.refreshToken)
             THEN Outcome(RefreshCatch(token,
                              Thrown(InternalError, "Unique constraint failed")),
                          us, deleted)
             ELSE Outcome(Response("refreshTokens", token, Ok, "", tokens),
                          us,
                          StoreRefreshToken(deleted, user.id,
                                            tokens.refreshToken, t))

Deleted(res, before, after) ==
    [res EXCEPT !.rows = Cardinality(before) - Cardinality(after)]

\* faulty variant: delete in place of deleteMany, which throws on a missing row
LogoutWithDelete(us, rts, token) ==
    IF FindToken(rts, token) = {}
    THEN Outcome(Response("logout", token, InternalError,
                          "Internal server error", NoTokens), us, rts)
    ELSE Outcome(Deleted(Response("logout", token, Ok, "", NoTokens),
                         rts, DeleteManyByToken(rts, token)),
                 us, DeleteManyByToken(rts, token))

Logout(us, rts, token) ==
    Outcome(Deleted(Response("logout", token, Ok, "", NoTokens),
                    rts, DeleteManyByToken(rts, token)),
            us, DeleteManyByToken(rts, token))

LogoutAll(us, rts, userId) ==
    Outcome(Deleted(Response("logoutAll", userId, Ok, "", NoTokens),
                    rts, DeleteManyByUser(rts, userId)),
            us, DeleteManyByUser(rts, userId))

UpdateUserRole(us, rts, userId, role) ==
    IF userId \notin UserIds(us)
    THEN Outcome(Response("updateUserRole", <<userId, role>>, NotFound,
                          "User not found", NoTokens), us, rts)
    ELSE LET updated == [us EXCEPT ![userId].role = role]
         IN  Outcome(WithUser(Response("updateUserRole", <<userId, role>>, Ok,
                                       "", NoTokens),
                              WithoutPassword(updated[userId])),
                     updated, rts)

\* faulty variant: deleteMany outside a try block
CleanupExpiredTokensThrows(us, rts, t, deleteManyFails) ==
    IF deleteManyFails
    THEN Outcome(Response("cleanupExpiredTokens", <<t, deleteManyFails>>,
                          InternalError, "Internal server error", NoTokens),
                 us, rts)
    ELSE Outcome(Deleted(Response("cleanupExpiredTokens", <<t, deleteManyFails>>,
                                  Ok, "", NoTokens),
                         rts, DeleteManyExpired(rts, t)),
                 us, DeleteManyExpired(rts, t))

\* deleteManyFails: the store rejects the bulk delete, which the catch
\* block swallows
CleanupExpiredTokens(us, rts, t, deleteManyFails) ==
    IF deleteManyFails
    THEN Outcome(Response("cleanupExpiredTokens", <<t, deleteManyFails>>,
                          Ok, "", NoTokens),
                 us, rts)
    ELSE Outcome(Deleted(Response("cleanupExpiredTokens", <<t, deleteManyFails>>,
                                  Ok, "", NoTokens),
                         rts, DeleteManyExpired(rts, t)),
                 us, DeleteManyExpired(rts, t))

\* getUserById: the row without its password, or null
GetUserById(us, id) ==
    IF id \in UserIds(us) THEN WithoutPassword(us[id]) ELSE NoUser

----------------------------------------------------------------------------
(* The guarded HTTP endpoints of AuthController.  JwtAuthGuard runs the    *)
(* passport-jwt strategy: the bearer token is verified under the access    *)
(* secret with ignoreExpiration false, then JwtStrategy.validate looks the *)
(* subject up and its result becomes request.user.                         *)

\* faulty variant: validate does not test isActive
ValidateWithoutActiveCheck(us, payload) ==
    LET user == GetUserById(us, payload.sub)
    IN  IF user = NoUser
        THEN [ok |-> FALSE, user |-> NoUser]
        ELSE [ok |-> TRUE, user |-> user]

Validate(us, payload) ==
    LET user == GetUserById(us, payload.sub)
    IN  IF user = NoUser \/ ~user.isActive
        THEN [ok |-> FALSE, user |-> NoUser]
        ELSE [ok |-> TRUE, user |-> user]

\* faulty variant: the identity keeps the role signed into the token
JwtAuthGuardTokenRole(us, cfg, token, t) ==
    IF ~VerifyAccessToken(cfg, token, t) \/ ~Validate(us, token).ok
    THEN [ok |-> FALSE, user |-> NoUser]
    ELSE [ok |-> TRUE,
          user |-> [Validate(us, token).user EXCEPT !.role = token.role]]

JwtAuthGuard(us, cfg, token, t) ==
    IF ~VerifyAccessToken(cfg, token, t)
    THEN [ok |-> FALSE, user |-> NoUser]
    ELSE Validate(us, token)

\* the role check: the identity's role against the endpoint's role set
RolesGuard(requiredRoles, user) == user.role \in requiredRoles

MeEndpoint == "me"
AdminOnlyEndpoint == "admin-only"
ModeratorOrAdminEndpoint == "moderator-or-admin"

Endpoints == {MeEndpoint, AdminOnlyEndpoint, ModeratorOrAdminEndpoint}

\* faulty variant: the admin-only endpoint also declares USER
AdminOnlyRolesWithUser == {"ADMIN", "USER"}

AdminOnlyRoles == {"ADMIN"}

ModeratorOrAdminRoles == {"ADMIN", "MODERATOR"}

DeclaredRoles(endpoint) ==
    IF endpoint = AdminOnlyEndpoint THEN AdminOnlyRoles
    ELSE IF endpoint = ModeratorOrAdminEndpoint THEN ModeratorOrAdminRoles
    ELSE Roles

\* getProfile: the handler behind the guard reads the user once more
GetProfile(us, userId) ==
    IF GetUserById(us, userId) = NoUser
    THEN [kind |-> Unauthorized, message |-> "User not found", user |-> NoUser]
    ELSE [kind |-> Ok, message |-> "", user |-> GetUserById(us, userId)]

HttpGet(us, cfg, endpoint, token, t) ==
    LET auth == JwtAuthGuard(us, cfg, token, t)
        answer(kind, message) == Response(endpoint, token, kind, message, NoTokens)
    IN  IF ~auth.ok
        THEN answer(Unauthorized, "Unauthorized")
        ELSE IF endpoint = MeEndpoint
        THEN WithUser(answer(GetProfile(us, auth.user.id).kind,
                             GetProfile(us, auth.user.id).message),
                      GetProfile(us, auth.user.id).user)
        ELSE IF ~RolesGuard(DeclaredRoles(endpoint), auth.user)
        THEN answer(Forbidden, "Forbidden resource")
        ELSE answer(Ok, "")

\* POST /auth/logout: behind JwtAuthGuard, the refresh token of the body
\* goes to AuthService.logout
LogoutEndpoint == "auth/logout"

LogoutRequest(us, rts, cfg, accessToken, refreshToken, t) ==
    IF ~JwtAuthGuard(us, cfg, accessToken, t).ok
    THEN Outcome(Response(LogoutEndpoint, <<accessToken, refreshToken>>,
                          Unauthorized, "Unauthorized", NoTokens), us, rts)
    ELSE LET o == Logout(us, rts, refreshToken)
         IN  Outcome([o.res EXCEPT !.op = LogoutEndpoint,
                                   !.arg = <<accessToken, refreshToken>>],
                     o.users, o.rts)

----------------------------------------------------------------------------
(* A guarded handler outside the auth module: StripeController's           *)
(* createCheckoutSession takes request.user through @GetUser() and puts    *)
(* user.sub into the session's metadata as userId.                         *)

StripeCheckoutEndpoint == "stripe/checkout-session"

\* object[key] as JavaScript reads it: undefined (no id) for a property the
\* object does not have
Property(object, key) ==
    IF key \in DOMAIN object THEN object[key] ELSE NoUser.id

\* @GetUser() without an argument: request.user itself
GetUser(user) == user

CreateCheckoutSession(us, cfg, token, t) ==
    LET auth == JwtAuthGuard(us, cfg, token, t)
    IN  IF ~auth.ok
        THEN Response(StripeCheckoutEndpoint, token, Unauthorized,
                      "Unauthorized", NoTokens)
        ELSE [Response(StripeCheckoutEndpoint, token, Ok, "", NoTokens)
                EXCEPT !.userId = Property(GetUser(auth.user), "sub")]

----------------------------------------------------------------------------
(* The scheduled jobs of CronExampleService, the only jobs the application *)
(* registers: three @Cron methods and the job added in onModuleInit.  Each *)
(* writes a debug line and touches no table.                               *)

HandleDailyCron == "handleDailyCron"
HandleEvery30Minutes == "handleEvery30Minutes"
HandleHourlyCron == "handleHourlyCron"
DynamicExampleJob == "dynamic-example-job"

CronJobs ==
    {HandleDailyCron, HandleEvery30Minutes, HandleHourlyCron, DynamicExampleJob}

\* the period of a job's cron expression, in seconds
CronPeriod(job) ==
    IF job = HandleDailyCron THEN SecondsPerDay
    ELSE IF job = HandleEvery30Minutes THEN 30 * 60
    ELSE IF job = HandleHourlyCron THEN 60 * 60
    ELSE 15 * 60

CronDue(job, t) == t % CronPeriod(job) = 0

\* what a run of the job leaves: the tables as they were
RunCronJob(us, rts, job, t) ==
    Outcome(Response(job, t, Ok, "", NoTokens), us, rts)

----------------------------------------------------------------------------
(* Initial state: empty tables, no call made, the JWT lifetimes as         *)
(* configured by the environment.                                          *)

\* the constructor of JwtStrategy throws when the access secret is not set:
\* the provider cannot be built and the application does not start
JwtStrategyConstructed(cfg) == cfg.accessSecret # Undefined

Bootstrap(cfg) ==
    IF JwtStrategyConstructed(cfg)
    THEN Response("start", 0, Ok, "", NoTokens)
    ELSE Response("start", 0, InternalError,
                  "JWT access secret must be configured", NoTokens)

\* POST /stripe/webhooks: the body is an event, the stripe-signature header
\* is made from a signing secret and the body it was computed over
WebhookEndpoint == "stripe/webhooks"
WebhookSecret == "STRIPE_WEBHOOK_SECRET"
OtherSecret == "whsec_other"

HandledEventTypes ==
    {"checkout.session.completed", "customer.subscription.created",
     "customer.subscription.updated", "customer.subscription.deleted",
     "invoice.payment_succeeded", "invoice.payment_failed", "customer.created",
     "payment_intent.succeeded", "payment_intent.payment_failed"}
UnhandledEventType == "charge.refunded"
EventTypes == HandledEventTypes \cup {UnhandledEventType}

StripeConfigs == [webhookSecret : {Undefined, WebhookSecret}]

Sign(secret, body) == [secret |-> secret, body |-> body]

\* no stripe-signature header
NoSignature == Sign("", "")

Signatures == {NoSignature} \cup {Sign(k, b) : k \in {WebhookSecret, OtherSecret},
                                               b \in EventTypes}

\* the private method the switch of handleWebhookEvent calls for a type
EventHandler(type) ==
    CASE type = "checkout.session.completed" -> "handleCheckoutSessionCompleted"
      [] type = "customer.subscription.created" -> "handleSubscriptionCreated"
      [] type = "customer.subscription.updated" -> "handleSubscriptionUpdated"
      [] type = "customer.subscription.deleted" -> "handleSubscriptionDeleted"
      [] type = "invoice.payment_succeeded" -> "handleInvoicePaymentSucceeded"
      [] type = "invoice.payment_failed" -> "handleInvoicePaymentFailed"
      [] type = "customer.created" -> "handleCustomerCreated"
      [] type = "payment_intent.succeeded" -> "handlePaymentIntentSucceeded"
      [] type = "payment_intent.payment_failed" -> "handlePaymentIntentFailed"
      [] OTHER -> "logger.warn"

\* the calls handleWebhookEvent makes, in order; none of the handlers throws
HandleWebhookEvent(event) == <<"handleWebhookEvent", EventHandler(event)>>

\* faulty variant: the event is parsed from the body, the signature unread
ConstructEventUnverified(cfg, payload, signature) ==
    [ok |-> TRUE, event |-> payload, calls |-> <<>>]

\* constructEventFromPayload: throws without a webhook secret, and lets
\* stripe.webhooks.constructEvent throw unless the signature was made with
\* the secret over this very payload
ConstructEventFromPayload(cfg, payload, signature) ==
    IF cfg.webhookSecret = Undefined
    THEN [ok |-> FALSE, event |-> "", calls |-> <<>>]
    ELSE IF signature = Sign(cfg.webhookSecret, payload)
    THEN [ok |-> TRUE, event |-> payload, calls |-> <<"constructEvent">>]
    ELSE [ok |-> FALSE, event |-> "", calls |-> <<"constructEvent">>]

HandleWebhook(cfg, body, signature) ==
    LET answer(kind, message, calls) ==
            [Response(WebhookEndpoint, <<body, signature>>, kind, message, NoTokens)
                 EXCEPT !.calls = calls]
        constructed == ConstructEventFromPayload(cfg, body, signature)
    IN  IF signature = NoSignature
        THEN answer(BadRequest, "Webhook error: Missing Stripe signature", <<>>)
        ELSE IF ~constructed.ok
        THEN answer(BadRequest, "Webhook error", constructed.calls)
        ELSE answer(Ok, "received",
                    constructed.calls \o HandleWebhookEvent(constructed.event))

\* a handshake that carries no token in auth, header or query
NoHandshakeToken == [GarbageToken EXCEPT !.secret = ""]

\* the payload verifyAccessToken returns for a token it accepts
JwtPayload(token) ==
    [sub |-> token.sub, email |-> token.email, username |-> token.username,
     role |-> token.role]

\* client.data.user before any guard has set it
NoPayload == JwtPayload(NoHandshakeToken)

SocketIds == 1..MaxSockets
NoSocketId == 0

NoSocket == [connected |-> FALSE, token |-> NoHandshakeToken, user |-> NoPayload]

NoRequest == [pc |-> "idle", token |-> GarbageToken, user |-> NoUser,
              tokens |-> NoTokens, kind |-> "", overlap |-> FALSE]

Slots == {1, 2}

JwtConfigs ==
    [accessSecret : {AccessSecret}, refreshSecret : {RefreshSecret},
     accessExpiration : {AccessExpiration},
     refreshExpiration : RefreshExpirations]

\* what the environment can hold: either secret unset, and the refresh
\* secret set to the very string of the access secret
EnvJwtConfigs ==
    [accessSecret : {Undefined, AccessSecret},
     refreshSecret : {Undefined, RefreshSecret, AccessSecret},
     accessExpiration : {AccessExpiration},
     refreshExpiration : RefreshExpirations]

InitWithStripe(configs, stripeConfigs) ==
    /\ users = <<>>
    /\ refreshTokens = {}
    /\ jwtConfig \in configs
    /\ now = 0
    /\ issued = {}
    /\ reqs = [s \in Slots |-> NoRequest]
    /\ last = Bootstrap(jwtConfig)
    /\ schedulerRegistry = {}
    /\ runningJobs = {}
    /\ jobsCreated = 0
    /\ sockets = [s \in SocketIds |-> NoSocket]
    /\ connectedUsers = {}
    /\ userSocketMap = {}
    /\ stripeConfig \in stripeConfigs

\* STRIPE_WEBHOOK_SECRET set
InitWith(configs) == InitWithStripe(configs, {[webhookSecret |-> WebhookSecret]})

\* both secrets set, to different strings
Init == InitWith(JwtConfigs)

InitEnv == InitWith(EnvJwtConfigs)

----------------------------------------------------------------------------
(* Actions: one whole handler per step *)

Issues(res) == IF res.kind = Ok THEN issued \cup {res.tokens} ELSE issued

\* requests are served by an application that has started
Running == last.op # "start" \/ last.kind = Ok

Apply(o) ==
    /\ Running
    /\ users' = o.users
    /\ refreshTokens' = o.rts
    /\ last' = o.res
    /\ UNCHANGED <<jwtConfig, now, reqs, modules>>

DoRegister(email, username, password) ==
    LET o == Register(users, refreshTokens, jwtConfig, email, username, password, now)
    IN  /\ Len(o.users) <= MaxUsers
        /\ Cardinality(Issues(o.res)) <= MaxIssued
        /\ issued' = Issues(o.res)
        /\ Apply(o)

DoLogin(email, password) ==
    LET o == Login(users, refreshTokens, jwtConfig, email, password, now)
    IN  /\ Cardinality(Issues(o.res)) <= MaxIssued
        /\ issued' = Issues(o.res)
        /\ Apply(o)

PresentableRefreshTokens == {p.refreshToken : p \in issued} \cup {GarbageToken}

PresentableAccessTokens ==
    {p.accessToken : p \in issued} \cup {p.refreshToken : p \in issued}
        \cup {GarbageToken}

DoRefreshTokens(token) ==
    LET o == RefreshTokens(users, refreshTokens, jwtConfig, token, now)
    IN  /\ Cardinality(Issues(o.res)) <= MaxIssued
        /\ issued' = Issues(o.res)
        /\ Apply(o)

DoLogout(token) ==
    /\ Apply(Logout(users, refreshTokens, token))
    /\ UNCHANGED issued

DoLogoutAll(userId) ==
    /\ Apply(LogoutAll(users, refreshTokens, userId))
    /\ UNCHANGED issued

DoUpdateUserRole(userId, role) ==
    /\ Apply(UpdateUserRole(users, refreshTokens, userId, role))
    /\ UNCHANGED issued

DoCleanupExpiredTokens(deleteManyFails) ==
    /\ Apply(CleanupExpiredTokens(users, refreshTokens, now, deleteManyFails))
    /\ UNCHANGED issued

DoHttpGet(endpoint, token) ==
    /\ Running
    /\ last' = HttpGet(users, jwtConfig, endpoint, token, now)
    /\ UNCHANGED <<authModule, modules>>

DoLogoutRequest(accessToken, refreshToken) ==
    /\ Apply(LogoutRequest(users, refreshTokens, jwtConfig, accessToken,
                           refreshToken, now))
    /\ UNCHANGED issued

DoHandleWebhook(body, signature) ==
    /\ Running
    /\ last' = HandleWebhook(stripeConfig, body, signature)
    /\ UNCHANGED <<authModule, modules>>

DoCreateCheckoutSession(token) ==
    /\ Running
    /\ last' = CreateCheckoutSession(users, jwtConfig, token, now)
    /\ UNCHANGED <<authModule, modules>>

DoRunCronJob(job) ==
    /\ CronDue(job, now)
    /\ Apply(RunCronJob(users, refreshTokens, job, now))
    /\ UNCHANGED issued

\* the account-disable operation: isActive set to false behind the service
Deactivate(userId) ==
    /\ userId \in UserIds(users)
    /\ users[userId].isActive
    /\ users' = [users EXCEPT ![userId].isActive = FALSE]
    /\ UNCHANGED <<refreshTokens, jwtConfig, now, issued, reqs, last, modules>>

\* the clock advances by d seconds, up to limit; the model follows single
\* seconds for MaxSeconds after each longer wait
Tick(d, limit) ==
    /\ now + d <= limit
    /\ d = 1 => (now % AccessExpiration) < MaxSeconds
    /\ now' = now + d
    /\ UNCHANGED <<users, refreshTokens, jwtConfig, issued, reqs, last, modules>>

----------------------------------------------------------------------------
(* CronService: jobs added at run time. A CronJob is named by the order of *)
(* its construction; SchedulerRegistry maps names to jobs.                 *)

ManageableJob == "manageable-job"
DynamicJobNames == {DynamicExampleJob, ManageableJob}

\* schedulerRegistry.getCronJob(name) finds a job
CronJobExists(registry, name) == \E e \in registry : e.name = name

GetCronJob(registry, name) == (CHOOSE e \in registry : e.name = name).job

CronAnswer(op, name, kind, message) ==
    /\ last' = Response(op, name, kind, message, NoTokens)
    /\ UNCHANGED <<authModule, websocketModule, stripeConfig>>

\* new CronJob(cronTime, callback, null, true, tz) arms the timer in the
\* constructor; schedulerRegistry.addCronJob throws on a name it holds
AddCronJob(name) ==
    /\ Running
    /\ jobsCreated < MaxJobs
    /\ jobsCreated' = jobsCreated + 1
    /\ runningJobs' = runningJobs \cup {jobsCreated'}
    /\ IF CronJobExists(schedulerRegistry, name)
       THEN /\ UNCHANGED schedulerRegistry
            /\ CronAnswer("addCronJob", name, InternalError,
                          "Cron Job with the given name already exists")
       ELSE /\ schedulerRegistry' =
                   schedulerRegistry \cup {[name |-> name, job |-> jobsCreated']}
            /\ CronAnswer("addCronJob", name, Ok, "")

\* addDynamicCronJob asks cronJobExists first
AddDynamicCronJob ==
    /\ ~CronJobExists(schedulerRegistry, DynamicExampleJob)
    /\ AddCronJob(DynamicExampleJob)

\* manageCronJobExample adds its job without asking
ManageCronJobExample == AddCronJob(ManageableJob)

\* schedulerRegistry.deleteCronJob stops the job it finds and forgets it
DeleteCronJob(name) ==
    /\ Running
    /\ IF CronJobExists(schedulerRegistry, name)
       THEN /\ runningJobs' = runningJobs \ {GetCronJob(schedulerRegistry, name)}
            /\ schedulerRegistry' = {e \in schedulerRegistry : e.name # name}
            /\ CronAnswer("deleteCronJob", name, Ok, "")
       ELSE /\ UNCHANGED <<schedulerRegistry, runningJobs>>
            /\ CronAnswer("deleteCronJob", name, InternalError,
                          "No Cron Job was found with the given name")
    /\ UNCHANGED jobsCreated

StopCronJob(name) ==
    /\ Running
    /\ IF CronJobExists(schedulerRegistry, name)
       THEN /\ runningJobs' = runningJobs \ {GetCronJob(schedulerRegistry, name)}
            /\ CronAnswer("stopCronJob", name, Ok, "")
       ELSE /\ UNCHANGED runningJobs
            /\ CronAnswer("stopCronJob", name, InternalError,
                          "No Cron Job was found with the given name")
    /\ UNCHANGED <<schedulerRegistry, jobsCreated>>

StartCronJob(name) ==
    /\ Running
    /\ IF CronJobExists(schedulerRegistry, name)
       THEN /\ runningJobs' = runningJobs \cup {GetCronJob(schedulerRegistry, name)}
            /\ CronAnswer("startCronJob", name, Ok, "")
       ELSE /\ UNCHANGED runningJobs
            /\ CronAnswer("startCronJob", name, InternalError,
                          "No Cron Job was found with the given name")
    /\ UNCHANGED <<schedulerRegistry, jobsCreated>>

----------------------------------------------------------------------------
(* SocketManagerService: two maps, one row per key.                        *)

Registry(cu, usm) == [connectedUsers |-> cu, userSocketMap |-> usm]

SocketUser(socketId, user) ==
    [socketId |-> socketId, id |-> user.sub, email |-> user.email,
     username |-> user.username, role |-> user.role]

\* connectedUsers.set(socket.id, socketUser); userSocketMap.set(user.sub, socket.id)
AddUser(reg, socketId, user) ==
    Registry({e \in reg.connectedUsers : e.socketId # socketId}
                 \cup {SocketUser(socketId, user)},
             {e \in reg.userSocketMap : e.userId # user.sub}
                 \cup {[userId |-> user.sub, socketId |-> socketId]})

GetUserBySocketId(reg, socketId) ==
    {e \in reg.connectedUsers : e.socketId = socketId}

\* the row of the socket goes, and the row of its user in userSocketMap,
\* whichever socket that row names
RemoveUser(reg, socketId) ==
    IF GetUserBySocketId(reg, socketId) = {}
    THEN reg
    ELSE LET user == CHOOSE e \in GetUserBySocketId(reg, socketId) : TRUE
         IN  Registry(reg.connectedUsers \ {user},
                      {e \in reg.userSocketMap : e.userId # user.id})

GetUserSocketId(reg, userId) ==
    IF \E e \in reg.userSocketMap : e.userId = userId
    THEN (CHOOSE e \in reg.userSocketMap : e.userId = userId).socketId
    ELSE NoSocketId

IsUserConnected(reg, userId) == \E e \in reg.userSocketMap : e.userId = userId

DisconnectUser(reg, userId) ==
    IF GetUserSocketId(reg, userId) # NoSocketId
    THEN RemoveUser(reg, GetUserSocketId(reg, userId))
    ELSE reg

----------------------------------------------------------------------------
(* The gateway: WsJwtGuard, handleConnection, handleDisconnect, the        *)
(* 'send-message' handler and sendToUser.                                  *)

\* canActivate: a token must be there and verifyAccessToken must accept it
WsJwtGuard(cfg, token, t) ==
    token # NoHandshakeToken /\ VerifyAccessToken(cfg, token, t)

Emit(event, to) == [event |-> event, to |-> to]

ConnectedSockets(ss) == {s \in SocketIds : ss[s].connected}

WsAnswer(op, arg, kind, message, events) ==
    /\ last' = [Response(op, arg, kind, message, NoTokens) EXCEPT !.events = events]
    /\ UNCHANGED <<authModule, cronModule, stripeConfig>>

SetRegistry(reg) ==
    /\ connectedUsers' = reg.connectedUsers
    /\ userSocketMap' = reg.userSocketMap

\* A client connects with its handshake token. guarded: whether the
\* framework runs the guard declared on the lifecycle hook before the hook.
\* When the guard throws, the hook is skipped and the client is sent an
\* exception; closed: whether the transport then closes the socket. The
\* hook itself registers the client only if data.user is set.
HandleConnection(s, token, guarded, closed) ==
    /\ Running
    /\ ~sockets[s].connected
    /\ IF guarded /\ ~WsJwtGuard(jwtConfig, token, now)
       THEN /\ sockets' = [sockets EXCEPT ![s] =
                              [NoSocket EXCEPT !.connected = ~closed,
                                               !.token = token]]
            /\ UNCHANGED <<connectedUsers, userSocketMap>>
            /\ WsAnswer("handleConnection", <<s, token>>, Unauthorized,
                        "Invalid token", {Emit("exception", {s})})
       ELSE LET user == IF guarded THEN JwtPayload(token) ELSE NoPayload
            IN  /\ ~closed
                /\ sockets' = [sockets EXCEPT ![s] =
                                  [connected |-> TRUE, token |-> token,
                                   user |-> user]]
                /\ IF user # NoPayload
                   THEN /\ SetRegistry(AddUser(Registry(connectedUsers, userSocketMap),
                                               s, user))
                        /\ WsAnswer("handleConnection", <<s, token>>, Ok, "",
                                    {Emit("connected", {s}),
                                     Emit("user-connected",
                                          ConnectedSockets(sockets'))})
                   ELSE /\ UNCHANGED <<connectedUsers, userSocketMap>>
                        /\ WsAnswer("handleConnection", <<s, token>>, Ok, "", {})

HandleDisconnect(s) ==
    /\ Running
    /\ sockets[s].connected
    /\ sockets' = [sockets EXCEPT ![s] = NoSocket]
    /\ LET reg == Registry(connectedUsers, userSocketMap)
       IN  /\ SetRegistry(RemoveUser(reg, s))
           /\ WsAnswer("handleDisconnect", s, Ok, "",
                       IF GetUserBySocketId(reg, s) = {} THEN {}
                       ELSE {Emit("user-disconnected", ConnectedSockets(sockets'))})

\* 'send-message': the guard runs on every message and sets data.user
HandleMessage(s, to) ==
    /\ Running
    /\ sockets[s].connected
    /\ UNCHANGED <<connectedUsers, userSocketMap>>
    /\ IF ~WsJwtGuard(jwtConfig, sockets[s].token, now)
       THEN /\ UNCHANGED sockets
            /\ WsAnswer("send-message", <<s, to>>, Unauthorized, "Invalid token",
                        {Emit("exception", {s})})
       ELSE LET targetSocketId ==
                    GetUserSocketId(Registry(connectedUsers, userSocketMap), to)
            IN  /\ sockets' = [sockets EXCEPT ![s].user = JwtPayload(sockets[s].token)]
                /\ WsAnswer("send-message", <<s, to>>, Ok, "",
                            IF to = NoUser.id
                            THEN {Emit("broadcast-message", ConnectedSockets(sockets))}
                            ELSE IF targetSocketId # NoSocketId
                            THEN {Emit("private-message", {targetSocketId}),
                                  Emit("message-sent", {s})}
                            ELSE {Emit("error", {s})})

DoDisconnectUser(userId) ==
    /\ Running
    /\ SetRegistry(DisconnectUser(Registry(connectedUsers, userSocketMap), userId))
    /\ UNCHANGED sockets
    /\ WsAnswer("disconnectUser", userId,
                IF IsUserConnected(Registry(connectedUsers, userSocketMap), userId)
                THEN Ok ELSE NotFound, "", {})

SendToUser(userId) ==
    /\ Running
    /\ UNCHANGED websocketModule
    /\ LET socketId == GetUserSocketId(Registry(connectedUsers, userSocketMap), userId)
       IN  IF socketId # NoSocketId
           THEN WsAnswer("sendToUser", userId, Ok, "", {Emit("event", {socketId})})
           ELSE WsAnswer("sendToUser", userId, NotFound, "", {})

----------------------------------------------------------------------------
(* refreshTokens call by call of the store, for calls in flight together:  *)
(* findUnique (after the codec check), delete, create.                     *)

InFlight(s) == reqs[s].pc \in {"found", "deleted"}

RfFinish(s, kind, tokens) ==
    /\ reqs' = [reqs EXCEPT ![s].pc = "done", ![s].kind = kind,
                            ![s].tokens = tokens]
    /\ last' = Response("refreshTokens", reqs[s].token, kind,
                        IF kind = Ok THEN "" ELSE "Invalid refresh token",
                        tokens)

RfFind(s, token) ==
    /\ Running
    /\ reqs[s].pc = "idle"
    /\ LET overlap == \E o \in Slots \ {s} : InFlight(o)
       IN  IF RefreshAccepts(users, refreshTokens, jwtConfig, token, now)
           THEN LET storedToken == CHOOSE r \in FindToken(refreshTokens, token) : TRUE
                IN  /\ reqs' = [reqs EXCEPT ![s] =
                                  [pc |-> "found", token |-> token,
                                   user |-> WithoutPassword(users[storedToken.userId]),
                                   tokens |-> NoTokens, kind |-> "",
                                   overlap |-> overlap]]
                    /\ UNCHANGED last
           ELSE /\ reqs' = [reqs EXCEPT ![s] =
                              [pc |-> "done", token |-> token, user |-> NoUser,
                               tokens |-> NoTokens, kind |-> Unauthorized,
                               overlap |-> overlap]]
                /\ last' = Response("refreshTokens", token, Unauthorized,
                                    "Invalid refresh token", NoTokens)
    /\ UNCHANGED <<users, refreshTokens, jwtConfig, now, issued, modules>>

\* generateTokenPair, then refreshToken.delete, which throws on a missing row
RfDelete(s) ==
    /\ reqs[s].pc = "found"
    /\ IF SecretsConfigured(jwtConfig) /\ TokenTaken(refreshTokens, reqs[s].token)
       THEN /\ refreshTokens' = DeleteManyByToken(refreshTokens, reqs[s].token)
            /\ reqs' = [reqs EXCEPT ![s].pc = "deleted",
                          ![s].tokens =
                              GenerateTokenPair(jwtConfig,
                                  RefreshClaims(reqs[s].user, reqs[s].token), now)]
            /\ UNCHANGED last
       ELSE /\ RfFinish(s, Unauthorized, NoTokens)
            /\ UNCHANGED refreshTokens
    /\ UNCHANGED <<users, jwtConfig, now, issued, modules>>

RfStore(s) ==
    /\ reqs[s].pc = "deleted"
    /\ IF TokenTaken(refreshTokens, reqs[s].tokens.refreshToken)
       THEN /\ RfFinish(s, Unauthorized, NoTokens)
            /\ UNCHANGED <<refreshTokens, issued>>
       ELSE /\ refreshTokens' = StoreRefreshToken(refreshTokens, reqs[s].user.id,
                                                  reqs[s].tokens.refreshToken, now)
            /\ RfFinish(s, Ok, reqs[s].tokens)
            /\ issued' = issued \cup {reqs[s].tokens}
    /\ UNCHANGED <<users, jwtConfig, now, modules>>

----------------------------------------------------------------------------
(* register call by call of the store, for calls in flight together:       *)
(* findFirst, then create with the token pair and its row.                 *)

\* the unique keys of the User table: the insert is refused when a row
\* with the email or with the username is there
UserUniqueViolation(us, email, username) ==
    \E i \in UserIds(us) : us[i].email = email \/ us[i].username = username

Checked(s) == reqs[s].pc = "checked"

RgFinish(s, kind, message, tokens) ==
    /\ reqs' = [reqs EXCEPT ![s].pc = "registered", ![s].kind = kind,
                            ![s].tokens = tokens]
    /\ last' = Response("register", <<reqs[s].user.email, reqs[s].user.username>>,
                        kind, message, tokens)

RgFind(s, email, username) ==
    /\ Running
    /\ reqs[s].pc = "idle"
    /\ LET overlap == \E o \in Slots \ {s} : Checked(o)
           dto == [NoUser EXCEPT !.email = email, !.username = username]
       IN  IF UserExists(users, email, username)
           THEN /\ reqs' = [reqs EXCEPT ![s] =
                              [NoRequest EXCEPT !.pc = "registered", !.user = dto,
                                                !.kind = Conflict,
                                                !.overlap = overlap]]
                /\ last' = Response("register", <<email, username>>, Conflict,
                                    "User with this email or username already exists",
                                    NoTokens)
           ELSE /\ reqs' = [reqs EXCEPT ![s] =
                              [NoRequest EXCEPT !.pc = "checked", !.user = dto,
                                                !.overlap = overlap]]
                /\ UNCHANGED last
    /\ UNCHANGED <<users, refreshTokens, jwtConfig, now, issued, modules>>

\* user.create, generateTokenPair, storeRefreshToken
RgCreate(s, password) ==
    /\ Checked(s)
    /\ LET email == reqs[s].user.email
           username == reqs[s].user.username
           user == NewUser(users, email, username, password)
           tokens == GenerateTokenPair(jwtConfig, Payload(user), now)
       IN  IF UserUniqueViolation(users, email, username)
           THEN /\ RgFinish(s, InternalError, "Internal server error", NoTokens)
                /\ UNCHANGED <<users, refreshTokens, issued>>
           ELSE /\ users' = Append(users, user)
                /\ IF ~SecretsConfigured(jwtConfig)
                      \/ TokenTaken(refreshTokens, tokens.refreshToken)
                   THEN /\ RgFinish(s, InternalError, "Internal server error",
                                    NoTokens)
                        /\ UNCHANGED <<refreshTokens, issued>>
                   ELSE /\ refreshTokens' = StoreRefreshToken(refreshTokens, user.id,
                                                tokens.refreshToken, now)
                        /\ RgFinish(s, Ok, "", tokens)
                        /\ issued' = issued \cup {tokens}
    /\ UNCHANGED <<jwtConfig, now, modules>>

----------------------------------------------------------------------------
(* Specifications *)

AnyUserId == 1..MaxUsers

RegisterPasswords == {"Password1A"}

RegisterStep ==
    \E e \in Emails, u \in Usernames, p \in RegisterPasswords : DoRegister(e, u, p)

\* the same call for one account only
RegisterAliceStep ==
    \E p \in RegisterPasswords : DoRegister("a@x.com", "alice", p)

LoginStep ==
    \E e \in Emails \cup {UnknownEmail}, p \in Passwords : DoLogin(e, p)

\* logins with the registered password
LoginRightStep == \E e \in Emails, p \in RegisterPasswords : DoLogin(e, p)

RefreshStep == \E tok \in PresentableRefreshTokens : DoRefreshTokens(tok)

LogoutStep == \E tok \in PresentableRefreshTokens : DoLogout(tok)

LogoutAllStep == \E id \in AnyUserId : DoLogoutAll(id)

UpdateUserRoleStep == \E id \in AnyUserId, r \in Roles : DoUpdateUserRole(id, r)

DeactivateStep == \E id \in AnyUserId : Deactivate(id)

\* refreshTokens with any token a client holds, access tokens too
RefreshAnyStep == \E tok \in PresentableAccessTokens : DoRefreshTokens(tok)

\* GET /auth/me alone
ProfileStep == \E tok \in PresentableAccessTokens : DoHttpGet(MeEndpoint, tok)

LogoutRequestStep ==
    \E acc \in PresentableAccessTokens, tok \in PresentableRefreshTokens :
        DoLogoutRequest(acc, tok)

StripeStep ==
    \E tok \in PresentableAccessTokens : DoCreateCheckoutSession(tok)

CronStep == \E job \in CronJobs : DoRunCronJob(job)

CleanupStep == \E fails \in BOOLEAN : DoCleanupExpiredTokens(fails)

HttpStep ==
    \E ep \in Endpoints, tok \in PresentableAccessTokens : DoHttpGet(ep, tok)

\* the lifetimes of configuration.ts when the environment sets none
InitDefault == Init /\ jwtConfig.refreshExpiration = DefaultRefreshExpiration

\* registration and login
NextLogin ==
    \/ RegisterStep
    \/ LoginStep
    \/ DeactivateStep
    \/ Tick(1, MaxSeconds)

SpecLogin == Init /\ [][NextLogin]_vars

\* token rotation and expiry
NextRotation ==
    \/ RegisterAliceStep
    \/ LoginStep
    \/ RefreshStep
    \/ DeactivateStep
    \/ \E d \in {1, RefreshTokenDays * SecondsPerDay} : Tick(d, MaxNow)

SpecRotation == Init /\ [][NextRotation]_vars

\* revocation
NextLogout ==
    \/ RegisterStep
    \/ LoginRightStep
    \/ RefreshStep
    \/ LogoutStep
    \/ LogoutAllStep
    \/ Tick(1, MaxSeconds)

SpecLogout == InitDefault /\ [][NextLogout]_vars

\* two refreshTokens calls in flight together
NextRace ==
    \/ RegisterAliceStep
    \/ \E s \in Slots, tok \in PresentableRefreshTokens : RfFind(s, tok)
    \/ \E s \in Slots : RfDelete(s)
    \/ \E s \in Slots : RfStore(s)
    \/ DeactivateStep
    \/ Tick(1, MaxSeconds)

SpecRace == Init /\ [][NextRace]_vars

\* guarded requests
NextHttp ==
    \/ RegisterAliceStep
    \/ UpdateUserRoleStep
    \/ DeactivateStep
    \/ HttpStep
    \/ \E d \in {1, AccessExpiration} : Tick(d, AccessExpiration + MaxSeconds)

SpecHttp == InitDefault /\ [][NextHttp]_vars

\* role changes among the other calls, all within one second
NextRoles ==
    \/ RegisterAliceStep
    \/ LoginRightStep
    \/ RefreshStep
    \/ LogoutStep
    \/ LogoutAllStep
    \/ UpdateUserRoleStep
    \/ CleanupStep

SpecRoles == InitDefault /\ [][NextRoles]_vars

\* the calls under every configuration of the secrets
NextConfig ==
    \/ RegisterAliceStep
    \/ LoginRightStep
    \/ RefreshAnyStep
    \/ ProfileStep
    \/ DeactivateStep
    \/ \E d \in {1, RefreshTokenDays * SecondsPerDay} : Tick(d, MaxNow)

SpecConfig == InitEnv /\ [][NextConfig]_vars

\* what the calls return and what the guard attaches to the request, all
\* within one second
NextIdentity ==
    \/ RegisterAliceStep
    \/ LoginRightStep
    \/ RefreshStep
    \/ UpdateUserRoleStep
    \/ HttpStep
    \/ StripeStep

SpecIdentity == InitDefault /\ [][NextIdentity]_vars

\* rows expiring and the maintenance call
NextCleanup ==
    \/ RegisterAliceStep
    \/ LoginRightStep
    \/ LogoutStep
    \/ CleanupStep
    \/ \E d \in {1, RefreshTokenDays * SecondsPerDay} : Tick(d, MaxNow)

SpecCleanup == Init /\ [][NextCleanup]_vars

\* the application left to its scheduled jobs: days pass, and the scheduler
\* runs every job that is due
SweepLimit == (RefreshTokenDays + 1) * SecondsPerDay + MaxSeconds

ClockStep ==
    \E d \in {1, SecondsPerDay, RefreshTokenDays * SecondsPerDay} :
        Tick(d, SweepLimit)

NextSweep ==
    \/ RegisterAliceStep
    \/ LoginRightStep
    \/ CronStep
    \/ ClockStep

SpecSweep ==
    /\ InitDefault
    /\ [][NextSweep]_vars
    /\ WF_vars(CronStep)
    /\ WF_vars(ClockStep)

\* two accounts and the logout endpoint, all within one second
NextOwnership ==
    \/ RegisterStep
    \/ LogoutRequestStep
    \/ DeactivateStep

SpecOwnership == InitDefault /\ [][NextOwnership]_vars

\* registrations in flight together, and the logins that follow
NextSignup ==
    \/ \E s \in Slots, e \in Emails, u \in Usernames : RgFind(s, e, u)
    \/ \E s \in Slots, p \in RegisterPasswords : RgCreate(s, p)
    \/ LoginRightStep
    \/ Tick(1, MaxSeconds)

SpecSignup == Init /\ [][NextSignup]_vars

\* jobs added, stopped, started and deleted at run time
NextCron ==
    \/ AddDynamicCronJob
    \/ ManageCronJobExample
    \/ \E name \in DynamicJobNames : DeleteCronJob(name)
    \/ \E name \in DynamicJobNames : StopCronJob(name)
    \/ \E name \in DynamicJobNames : StartCronJob(name)

SpecCron == InitDefault /\ [][NextCron]_vars

\* a client connects with an access token it was issued, or with none
ConnectionStep ==
    \E s \in SocketIds, tok \in {p.accessToken : p \in issued} \cup {NoHandshakeToken},
       guarded, closed \in BOOLEAN : HandleConnection(s, tok, guarded, closed)

\* clients of the gateway beside the account they authenticate as
NextGateway ==
    \/ RegisterAliceStep
    \/ DeactivateStep
    \/ ConnectionStep
    \/ \E s \in SocketIds : HandleDisconnect(s)
    \/ \E s \in SocketIds, to \in AnyUserId \cup {NoUser.id} : HandleMessage(s, to)
    \/ \E id \in AnyUserId : DoDisconnectUser(id)
    \/ \E id \in AnyUserId : SendToUser(id)
    \/ Tick(AccessExpiration, AccessExpiration)

SpecGateway == InitDefault /\ [][NextGateway]_vars

WebhookStep ==
    \E body \in EventTypes, signature \in Signatures : DoHandleWebhook(body, signature)

\* the webhook endpoint, with and without STRIPE_WEBHOOK_SECRET
NextWebhook ==
    \/ WebhookStep
    \/ RegisterAliceStep

InitWebhook ==
    /\ InitWithStripe(JwtConfigs, StripeConfigs)
    /\ jwtConfig.refreshExpiration = DefaultRefreshExpiration

SpecWebhook == InitWebhook /\ [][NextWebhook]_vars

Next ==
    \/ NextLogin
    \/ NextRotation
    \/ NextLogout
    \/ NextRace
    \/ NextHttp
    \/ NextRoles
    \/ NextConfig
    \/ NextIdentity
    \/ NextCleanup
    \/ NextSweep
    \/ NextOwnership
    \/ NextSignup
    \/ NextCron
    \/ NextGateway
    \/ NextWebhook

Spec == Init /\ [][Next]_vars

----------------------------------------------------------------------------
(* Properties *)

StoredUser(email) == users[CHOOSE i \in UserByEmail(users, email) : TRUE]

RetryRefresh(token) ==
    RefreshTokens(users', refreshTokens', jwtConfig', token, now').res

\* C1: single-use rotation.  A refreshTokens call presenting a fresh token
\* R1 (signature and row unexpired, owner active) succeeds and the refresh
\* token R2 it returns is stored; from then on refreshTokens(R1) fails with
\* Unauthorized and refreshTokens(R2) succeeds.
C1_SingleUseRotation ==
    [][\A tok \in PresentableRefreshTokens :
          (DoRefreshTokens(tok)
             /\ RefreshAccepts(users, refreshTokens, jwtConfig, tok, now))
          => /\ last'.kind = Ok
             /\ TokenTaken(refreshTokens', last'.tokens.refreshToken)
             /\ RetryRefresh(tok).kind = Unauthorized
             /\ RetryRefresh(last'.tokens.refreshToken).kind = Ok]_vars

\* C2: of two refreshTokens calls in flight together with the same token,
\* at most one returns a token pair.
C2_AtMostOneSucceeds ==
    \A s1, s2 \in Slots :
        (/\ s1 # s2
         /\ reqs[s1].pc = "done" /\ reqs[s2].pc = "done"
         /\ reqs[s1].overlap \/ reqs[s2].overlap
         /\ reqs[s1].token = reqs[s2].token)
        => ~(reqs[s1].kind = Ok /\ reqs[s2].kind = Ok)

\* C3: refreshTokens returns a token pair only if, when called, the token
\* has a row in the store whose expiresAt has not passed and whose owner is
\* active; a row whose expiresAt is in the past makes the call fail with
\* Unauthorized, also when the token's signature verifies.
C3_RefreshOnlyIfValid ==
    [][\A tok \in PresentableRefreshTokens :
          DoRefreshTokens(tok)
          => /\ last'.kind = Ok
                => \E r \in refreshTokens :
                      /\ r.token = tok
                      /\ ~(r.expiresAt < now)
                      /\ users[r.userId].isActive
             /\ (\E r \in refreshTokens : r.token = tok /\ r.expiresAt < now)
                => last'.kind = Unauthorized]_vars

\* a refresh was refused for a token whose signature verifies and whose row
\* has expired
C3_ExpiredRecordRejected ==
    /\ last.op = "refreshTokens"
    /\ last.kind = Unauthorized
    /\ VerifyRefreshToken(jwtConfig, last.arg, now)
    /\ \E r \in refreshTokens :
          r.token = last.arg /\ r.expiresAt < now /\ users[r.userId].isActive

\* C4: for every stored user, login with the user's email and right
\* password succeeds if and only if the user is active.
C4_LoginIffActive ==
    [][\A e \in Emails, p \in Passwords :
          (/\ DoLogin(e, p)
           /\ UserByEmail(users, e) # {}
           /\ BcryptCompare(p, StoredUser(e).password))
          => (last'.kind = Ok <=> StoredUser(e).isActive)]_vars

\* C5: login with a stored user's email and a wrong password fails exactly
\* as login with an email no user has: same error kind, same message.
C5_FailedLoginIndistinguishable ==
    [][\A e \in Emails, p \in Passwords :
          (/\ DoLogin(e, p)
           /\ UserByEmail(users, e) # {}
           /\ ~BcryptCompare(p, StoredUser(e).password))
          => LET unknown == Login(users, refreshTokens, jwtConfig,
                                  UnknownEmail, p, now).res
             IN  /\ last'.kind = Unauthorized
                 /\ last'.kind = unknown.kind
                 /\ last'.message = unknown.message]_vars

\* C6: register with an email and a username no stored user has succeeds
\* and adds exactly one user, with that email and username; register with
\* an email or a username some stored user has fails with Conflict and adds
\* none; stored users keep their email and username.
C6_RegisterOnce ==
    [][/\ \A e \in Emails, u \in Usernames, p \in RegisterPasswords :
             DoRegister(e, u, p)
             => IF UserExists(users, e, u)
                THEN last'.kind = Conflict /\ users' = users
                ELSE /\ last'.kind = Ok
                     /\ Len(users') = Len(users) + 1
                     /\ users'[Len(users')].email = e
                     /\ users'[Len(users')].username = u
       /\ Len(users') >= Len(users)
       /\ \A i \in UserIds(users) :
             /\ users'[i].email = users[i].email
             /\ users'[i].username = users[i].username
       /\ \A i, j \in UserIds(users') :
             i # j => /\ users'[i].email # users'[j].email
                      /\ users'[i].username # users'[j].username]_vars

\* a register was refused for reusing one of a stored user's email and
\* username together with a fresh other one
C6_ConflictOnReuse ==
    /\ last.op = "register"
    /\ last.kind = Conflict
    /\ \E i \in UserIds(users) :
          \/ users[i].email = last.arg[1] /\ users[i].username # last.arg[2]
          \/ users[i].email # last.arg[1] /\ users[i].username = last.arg[2]
    /\ \A i \in UserIds(users) :
          ~(users[i].email = last.arg[1] /\ users[i].username = last.arg[2])

IssuedTo(userId) == {p.refreshToken : p \in {q \in issued : q.refreshToken.sub = userId}}

\* C7: when logoutAll(userId) has completed no row of the store is owned by
\* userId, and refreshTokens fails with Unauthorized on every refresh token
\* issued to that user before.
C7_LogoutAllRevokes ==
    [][(last'.op = "logoutAll" /\ DoLogoutAll(last'.arg))
       => /\ \A r \in refreshTokens' : r.userId # last'.arg
          /\ \A tok \in IssuedTo(last'.arg) :
                RetryRefresh(tok).kind = Unauthorized]_vars

\* logoutAll removed several rows of a user who holds unexpired tokens
C7_LoggedOutAll ==
    /\ last.op = "logoutAll"
    /\ last.rows >= 2
    /\ \E tok \in IssuedTo(last.arg) : VerifyRefreshToken(jwtConfig, tok, now)
    /\ \E r \in refreshTokens : r.userId # last.arg

\* C8: logout and logoutAll raise no error, leave no matching row, and a
\* second identical call raises no error and leaves the store as the first
\* call left it, also when no row matched.
C8_LogoutIdempotent ==
    [][/\ (last'.op = "logout" /\ DoLogout(last'.arg))
          => /\ last'.kind = Ok
             /\ FindToken(refreshTokens', last'.arg) = {}
             /\ Logout(users', refreshTokens', last'.arg).res.kind = Ok
             /\ Logout(users', refreshTokens', last'.arg).rts = refreshTokens'
       /\ (last'.op = "logoutAll" /\ DoLogoutAll(last'.arg))
          => /\ last'.kind = Ok
             /\ \A r \in refreshTokens' : r.userId # last'.arg
             /\ LogoutAll(users', refreshTokens', last'.arg).res.kind = Ok
             /\ LogoutAll(users', refreshTokens', last'.arg).rts = refreshTokens']_vars

\* a logout of an issued token returned with no row left to remove
C8_SecondLogout ==
    /\ last.op = "logout"
    /\ last.kind = Ok
    /\ last.rows = 0
    /\ last.arg # GarbageToken

\* C9: a request bearing a validly signed, unexpired access token is
\* answered Unauthorized whenever the token's subject is not a stored user
\* or is not active at the time of the request.
C9_GuardRechecksUser ==
    [][\A ep \in Endpoints, tok \in PresentableAccessTokens :
          (/\ DoHttpGet(ep, tok)
           /\ VerifyAccessToken(jwtConfig, tok, now)
           /\ \/ tok.sub \notin UserIds(users)
              \/ ~users[tok.sub].isActive)
          => last'.kind = Unauthorized]_vars

\* a request was refused although its access token still verifies: the user
\* was deactivated after the token was issued
C9_DeactivatedRejected ==
    /\ last.op \in Endpoints
    /\ last.kind = Unauthorized
    /\ VerifyAccessToken(jwtConfig, last.arg, now)
    /\ last.arg.sub \in UserIds(users)
    /\ ~users[last.arg.sub].isActive

\* C10: role gating.  For an authenticated request, USER on the admin-only
\* endpoint is Forbidden, ADMIN and MODERATOR pass the moderator-or-admin
\* endpoint, and a role-gated request passes exactly when the identity's
\* role is in the endpoint's declared set, and is Forbidden otherwise.
C10_RoleGating ==
    [][\A ep \in Endpoints \ {MeEndpoint}, tok \in PresentableAccessTokens :
          (DoHttpGet(ep, tok) /\ JwtAuthGuard(users, jwtConfig, tok, now).ok)
          => LET role == JwtAuthGuard(users, jwtConfig, tok, now).user.role
             IN  /\ (ep = "admin-only" /\ role = "USER")
                    => last'.kind = Forbidden
                 /\ (ep = "moderator-or-admin" /\ role \in {"ADMIN", "MODERATOR"})
                    => last'.kind = Ok
                 /\ last'.kind = Ok <=> role \in DeclaredRoles(ep)
                 /\ last'.kind \in {Ok, Forbidden}]_vars

\* an authenticated USER was refused on the admin-only endpoint
C10_UserForbidden ==
    /\ last.op = AdminOnlyEndpoint
    /\ last.kind = Forbidden
    /\ JwtAuthGuard(users, jwtConfig, last.arg, now).ok
    /\ JwtAuthGuard(users, jwtConfig, last.arg, now).user.role = "USER"

\* C11: the pair issued by refreshTokens carries the claims of the owning
\* user as stored when the call is made, not those of the presented token:
\* after updateUserRole(u, r) a successful refreshTokens with a token of u
\* issued before the change returns tokens whose role claim is r.
C11_RefreshCarriesStoredRole ==
    [][(/\ last'.op = "refreshTokens"
        /\ DoRefreshTokens(last'.arg)
        /\ last'.kind = Ok)
       => \A r \in FindToken(refreshTokens, last'.arg) :
             /\ last'.tokens.accessToken.role = users[r.userId].role
             /\ last'.tokens.refreshToken.role = users[r.userId].role
             /\ last'.tokens.accessToken.sub = r.userId
             /\ last'.tokens.refreshToken.sub = r.userId]_vars

\* a refresh succeeded with a token issued before the owner's role was
\* changed, and returned the new role
C11_RoleChangedBeforeRefresh ==
    /\ last.op = "refreshTokens"
    /\ last.kind = Ok
    /\ last.arg.role # users[last.arg.sub].role
    /\ last.tokens.accessToken.role = users[last.arg.sub].role
    /\ last.tokens.refreshToken.role = users[last.arg.sub].role

\* C12: every refresh-token row created by register, login or refreshTokens
\* has expiresAt equal to the time the token was issued plus the configured
\* refresh lifetime, the lifetime the token was signed with, whatever value
\* is configured.
C12_ExpiresAtFollowsConfig ==
    \A r \in refreshTokens :
        /\ r.expiresAt = r.token.iat + jwtConfig.refreshExpiration
        /\ r.expiresAt = r.token.exp

\* C13: every failure of refreshTokens, whatever was thrown (by the codec
\* for a bad signature or a passed exp, for a missing or expired row, for
\* an inactive owner, by the store, for a secret that is not set), reaches
\* the caller as Unauthorized with one and the same message.
C13_RefreshFailsUniformly ==
    [][(/\ last'.op = "refreshTokens"
        /\ DoRefreshTokens(last'.arg)
        /\ last'.kind # Ok)
       => /\ last'.kind = Unauthorized
          /\ last'.message = "Invalid refresh token"
          /\ last' = RefreshCatch(last'.arg, Thrown(Unauthorized, ""))]_vars

\* a refresh was refused because the owner of an unexpired, stored token is
\* inactive, and the caller saw the message of every other refusal
C13_InactiveOwnerRefused ==
    /\ last.op = "refreshTokens"
    /\ last.kind = Unauthorized
    /\ last.message = "Invalid refresh token"
    /\ VerifyRefreshToken(jwtConfig, last.arg, now)
    /\ \E r \in FindToken(refreshTokens, last.arg) :
          ~(r.expiresAt < now) /\ ~users[r.userId].isActive

IssuedRefreshTokens == {p.refreshToken : p \in issued}

IssuedAccessTokens == {p.accessToken : p \in issued}

\* C14: access and refresh tokens are not interchangeable.  An issued
\* refresh token presented as a bearer token does not verify under the
\* access secret and the request is Unauthorized; an issued access token
\* presented to refreshTokens does not verify under the refresh secret and
\* the call fails with Unauthorized.
C14_NotInterchangeable ==
    [][/\ (/\ last'.op \in Endpoints
           /\ DoHttpGet(last'.op, last'.arg)
           /\ last'.arg \in IssuedRefreshTokens)
          => /\ ~VerifyAccessToken(jwtConfig, last'.arg, now)
             /\ last'.kind = Unauthorized
       /\ (/\ last'.op = "refreshTokens"
           /\ DoRefreshTokens(last'.arg)
           /\ last'.arg \in IssuedAccessTokens)
          => /\ ~VerifyRefreshToken(jwtConfig, last'.arg, now)
             /\ last'.kind = Unauthorized]_vars

\* C14 as it holds: the same, when the two secrets are configured to
\* different strings.
C14_NotInterchangeableDistinctSecrets ==
    [][jwtConfig.accessSecret # jwtConfig.refreshSecret
       => /\ (/\ last'.op \in Endpoints
              /\ DoHttpGet(last'.op, last'.arg)
              /\ last'.arg \in IssuedRefreshTokens)
             => /\ ~VerifyAccessToken(jwtConfig, last'.arg, now)
                /\ last'.kind = Unauthorized
          /\ (/\ last'.op = "refreshTokens"
              /\ DoRefreshTokens(last'.arg)
              /\ last'.arg \in IssuedAccessTokens)
             => /\ ~VerifyRefreshToken(jwtConfig, last'.arg, now)
                /\ last'.kind = Unauthorized]_vars

\* under different secrets a request bearing the unexpired refresh token of
\* an active user was refused
C14_RefreshTokenAsBearerRefused ==
    /\ jwtConfig.accessSecret # jwtConfig.refreshSecret
    /\ last.op \in Endpoints
    /\ last.arg \in IssuedRefreshTokens
    /\ now < last.arg.exp
    /\ users[last.arg.sub].isActive
    /\ last.kind = Unauthorized

\* the configuration with every unset secret set
Configured(cfg) ==
    [cfg EXCEPT !.accessSecret = IF @ = Undefined THEN AccessSecret ELSE @,
                !.refreshSecret = IF @ = Undefined THEN RefreshSecret ELSE @]

\* C15: when a JWT secret, access or refresh, is not set, the process fails
\* at start and serves no request; and no register, login, refreshTokens
\* or guarded request fails because a secret is not set: each call ends as
\* it would with the secrets set.
C15_SecretsCheckedAtStart ==
    [][/\ last' # last => SecretsConfigured(jwtConfig)
       /\ \A pw \in RegisterPasswords :
             DoRegister("a@x.com", "alice", pw)
             => last'.kind = Register(users, refreshTokens, Configured(jwtConfig),
                                      "a@x.com", "alice", pw, now).res.kind
       /\ \A e \in Emails, pw \in RegisterPasswords :
             DoLogin(e, pw)
             => last'.kind = Login(users, refreshTokens, Configured(jwtConfig),
                                   e, pw, now).res.kind
       /\ (last'.op = "refreshTokens" /\ DoRefreshTokens(last'.arg))
          => last'.kind = RefreshTokens(users, refreshTokens,
                                        Configured(jwtConfig), last'.arg, now).res.kind
       /\ (last'.op \in Endpoints /\ DoHttpGet(last'.op, last'.arg))
          => last'.kind = HttpGet(users, Configured(jwtConfig), last'.op,
                                  last'.arg, now).kind]_vars

\* the claims a token carries
ClaimSet(token) ==
    [sub |-> token.sub, email |-> token.email, username |-> token.username,
     role |-> token.role]

\* C16: after a successful authentication check the identity attached to
\* the request is the claim set of the token (sub, email, username, role),
\* so the Stripe handler, which reads user.sub, obtains the id of the
\* authenticated user.
C16_IdentityIsClaimSet ==
    [][(/\ last'.op = StripeCheckoutEndpoint
        /\ DoCreateCheckoutSession(last'.arg)
        /\ last'.kind = Ok)
       => /\ JwtAuthGuard(users, jwtConfig, last'.arg, now).user
                = ClaimSet(last'.arg)
          /\ last'.userId = last'.arg.sub]_vars

\* C17: the password hash does not leave the service.  Neither the user in
\* the body returned by register, login, getUserById (GET /auth/me) and
\* updateUserRole, nor the tokens returned by register, login and
\* refreshTokens, nor the identity the authentication check attaches to a
\* request has the password of the stored user.
C17_HashNeverLeaves ==
    /\ "password" \notin DOMAIN last.user
    /\ "password" \notin DOMAIN last.tokens.accessToken
    /\ "password" \notin DOMAIN last.tokens.refreshToken
    /\ \A i \in UserIds(users) : "password" \notin DOMAIN GetUserById(users, i)
    /\ \A tok \in PresentableAccessTokens :
          "password" \notin DOMAIN JwtAuthGuard(users, jwtConfig, tok, now).user

\* a login returned the body of a stored user, whose row holds the hash
C17_LoginReturnedUser ==
    /\ last.op = "login"
    /\ last.kind = Ok
    /\ last.user.id \in UserIds(users)
    /\ users[last.user.id].password = BcryptHash("Password1A", SaltRounds)
    /\ \E tok \in PresentableAccessTokens :
          JwtAuthGuard(users, jwtConfig, tok, now).ok

\* C18: a newly registered user has role USER and is active; register,
\* login, refreshTokens, logout, logoutAll and cleanupExpiredTokens leave
\* the role of every stored user as it is; a role changes only by a
\* successful updateUserRole of that user to that role; updateUserRole of
\* an id no user has fails with NotFound and changes nothing.
C18_RoleFrame ==
    [][/\ Len(users') > Len(users)
          => /\ last'.op = "register" /\ last'.kind = Ok
             /\ users'[Len(users')].role = "USER"
             /\ users'[Len(users')].isActive = TRUE
       /\ \A i \in UserIds(users) :
             users'[i].role # users[i].role
             => /\ last'.op = "updateUserRole"
                /\ last'.kind = Ok
                /\ last'.arg = <<i, users'[i].role>>
       /\ last'.op \in {"register", "login", "refreshTokens", "logout",
                        "logoutAll", "cleanupExpiredTokens"}
          => \A i \in UserIds(users) : users'[i].role = users[i].role
       /\ (/\ last'.op = "updateUserRole"
           /\ DoUpdateUserRole(last'.arg[1], last'.arg[2]))
          => IF last'.arg[1] \in UserIds(users)
             THEN /\ last'.kind = Ok
                  /\ users'[last'.arg[1]].role = last'.arg[2]
             ELSE /\ last'.kind = NotFound
                  /\ users' = users
                  /\ refreshTokens' = refreshTokens]_vars

\* updateUserRole was refused for an id no user has, while a user whose
\* role had been changed is stored
C18_UnknownUserNotFound ==
    /\ last.op = "updateUserRole"
    /\ last.kind = NotFound
    /\ last.arg[1] \notin UserIds(users)
    /\ \E i \in UserIds(users) : users[i].role # "USER"

\* C19: cleanupExpiredTokens raises no error.  When the bulk delete goes
\* through, exactly the rows whose expiresAt is earlier than now are gone
\* and every other row is as it was; when the store rejects the delete the
\* call returns normally all the same.
C19_CleanupNeverRaises ==
    [][(/\ last'.op = "cleanupExpiredTokens"
        /\ DoCleanupExpiredTokens(last'.arg[2]))
       => /\ last'.kind = Ok
          /\ users' = users
          /\ ~last'.arg[2]
             => refreshTokens' = {r \in refreshTokens : ~(r.expiresAt < now)}]_vars

\* a cleanup removed an expired row and left an unexpired one
C19_ExpiredRemovedOthersKept ==
    /\ last.op = "cleanupExpiredTokens"
    /\ ~last.arg[2]
    /\ last.arg[1] = now
    /\ last.rows >= 1
    /\ refreshTokens # {}
    /\ \A r \in refreshTokens : ~(r.expiresAt < now)

SomeRowExpired == \E r \in refreshTokens : r.expiresAt < now

\* C20: every refresh-token row whose expiresAt has passed is eventually
\* removed by a periodic maintenance sweep, with no client request: from a
\* state with an expired row the scheduled jobs lead to a state with none.
C20_ExpiredEventuallySwept == SomeRowExpired ~> ~SomeRowExpired

\* C24: refreshTokens is all-or-nothing on the store: when it fails with
\* Unauthorized the RefreshToken table is as it was before the call; the
\* row of the presented token is not deleted unless the row of the
\* replacement is stored.
C24_RefreshAllOrNothing ==
    [][(/\ last'.op = "refreshTokens"
        /\ DoRefreshTokens(last'.arg)
        /\ last'.kind = Unauthorized)
       => refreshTokens' = refreshTokens]_vars

\* C25: register is all-or-nothing: when it fails, with Conflict or after
\* the user was written, the User table is as it was before the call, and
\* after a failure other than Conflict the same call made again is not
\* answered Conflict.
C25_RegisterAllOrNothing ==
    [][\A pw \in RegisterPasswords :
          (DoRegister("a@x.com", "alice", pw) /\ last'.kind # Ok)
          => /\ users' = users
             /\ last'.kind # Conflict
                => Register(users', refreshTokens', jwtConfig', "a@x.com",
                            "alice", pw, now').res.kind # Conflict]_vars

\* C28: the role check of an HTTP request uses the role stored for the
\* user when the request is made, not the role claim of the access token:
\* an unexpired token of an active user passes the admin-only endpoint
\* exactly when the stored role is ADMIN, so a token issued while the user
\* was ADMIN is refused after the change to USER and a token issued before
\* a change to ADMIN passes.
C28_RoleCheckUsesStoredRole ==
    [][(/\ last'.op = AdminOnlyEndpoint
        /\ DoHttpGet(AdminOnlyEndpoint, last'.arg)
        /\ VerifyAccessToken(jwtConfig, last'.arg, now)
        /\ last'.arg.sub \in UserIds(users)
        /\ users[last'.arg.sub].isActive)
       => /\ last'.kind = Ok <=> users[last'.arg.sub].role = "ADMIN"
          /\ last'.kind \in {Ok, Forbidden}]_vars

\* a token issued while its user was ADMIN was refused on the admin-only
\* endpoint after the user was changed to USER
C28_DemotedTokenForbidden ==
    /\ last.op = AdminOnlyEndpoint
    /\ last.kind = Forbidden
    /\ last.arg.role = "ADMIN"
    /\ VerifyAccessToken(jwtConfig, last.arg, now)
    /\ last.arg.sub \in UserIds(users)
    /\ users[last.arg.sub].role = "USER"

\* C27: POST /auth/logout made by authenticated user A removes a row of the
\* RefreshToken table only if A owns it: with another user's refresh token
\* in the body that user's rows stay as they are.
C27_LogoutOnlyOwnRows ==
    [][(/\ last'.op = LogoutEndpoint
        /\ DoLogoutRequest(last'.arg[1], last'.arg[2])
        /\ JwtAuthGuard(users, jwtConfig, last'.arg[1], now).ok)
       => \A r \in refreshTokens \ refreshTokens' :
             r.userId = JwtAuthGuard(users, jwtConfig, last'.arg[1], now).user.id]_vars

\* C26: of two register calls in flight together that share an email or a
\* username, exactly one succeeds and the other fails with Conflict, and no
\* two stored users share an email or a username.
C26_ConcurrentRegisterOneConflict ==
    /\ \A s1, s2 \in Slots :
        (/\ s1 # s2
         /\ reqs[s1].pc = "registered" /\ reqs[s2].pc = "registered"
         /\ reqs[s1].overlap \/ reqs[s2].overlap
         /\ \/ reqs[s1].user.email = reqs[s2].user.email
            \/ reqs[s1].user.username = reqs[s2].user.username)
        => {reqs[s1].kind, reqs[s2].kind} = {Ok, Conflict}
    /\ \A i, j \in UserIds(users) :
        i # j => /\ users[i].email # users[j].email
                 /\ users[i].username # users[j].username

\* C30: every running cron job created through CronService is registered
\* under its name, where stopCronJob and deleteCronJob reach it; an
\* addCronJob that fails on a name already registered leaves no job running
\* outside the registry.
C30_RunningJobsRegistered ==
    \A job \in runningJobs : \E e \in schedulerRegistry : e.job = job

\* C21: a WebSocket connection whose handshake carries no token, or a token
\* the guard does not accept (invalid or expired), is rejected: the socket
\* does not stay connected, it is not added to the active-user registry and
\* no 'user-connected' event is broadcast for it.
C21_BadHandshakeRejected ==
    [][\A s \in SocketIds :
          (/\ last'.op = "handleConnection" /\ last'.arg[1] = s
           /\ \E guarded, closed \in BOOLEAN :
                  HandleConnection(s, last'.arg[2], guarded, closed)
           /\ ~WsJwtGuard(jwtConfig, last'.arg[2], now))
          => /\ ~sockets'[s].connected
             /\ GetUserBySocketId(Registry(connectedUsers', userSocketMap'), s) = {}
             /\ \A e \in last'.events : e.event # "user-connected"]_vars

\* C22: the authentication check for WebSocket messages fails also when
\* the subject of the token no longer exists or is inactive: a user
\* deactivated after the token was issued has no guarded event handled.
C22_InactiveSubjectNotHandled ==
    [][\A s \in SocketIds :
          (/\ last'.op = "send-message" /\ last'.arg[1] = s
           /\ HandleMessage(s, last'.arg[2])
           /\ ~Validate(users, JwtPayload(sockets[s].token)).ok)
          => last'.kind = Unauthorized]_vars

\* C29: isUserConnected(u) is true and getUserSocketId(u) names a socket
\* present in the connected-sockets map and belonging to u exactly when some
\* entry of the connected-sockets map belongs to u; so sendToUser(u) and a
\* private message to u fail only when u has no connected socket.
C29_RegistryMapsAgree ==
    LET reg == Registry(connectedUsers, userSocketMap)
    IN  \A u \in AnyUserId :
            (/\ IsUserConnected(reg, u)
             /\ \E e \in connectedUsers :
                   e.socketId = GetUserSocketId(reg, u) /\ e.id = u)
            <=> \E e \in connectedUsers : e.id = u

\* the place of a call among the calls of the last request, 0 if not made
CallIndex(call) ==
    IF \E i \in DOMAIN last.calls : last.calls[i] = call
    THEN CHOOSE i \in DOMAIN last.calls : last.calls[i] = call
    ELSE 0

\* C23: the webhook endpoint hands an event to handleWebhookEvent only
\* after the signature was verified against the webhook secret. A request
\* with no signature, with a signature that does not verify, or received
\* while no webhook secret is configured, is answered 400 and no handler
\* runs; an event of an unhandled type with a verifying signature is
\* acknowledged without error.
C23_DispatchOnlyAfterVerification ==
    [][(/\ last'.op = WebhookEndpoint
        /\ DoHandleWebhook(last'.arg[1], last'.arg[2]))
       => LET body == last'.arg[1]
              signature == last'.arg[2]
              verifies == /\ signature # NoSignature
                          /\ stripeConfig.webhookSecret # Undefined
                          /\ signature.secret = stripeConfig.webhookSecret
                          /\ signature.body = body
              dispatched == \E i \in DOMAIN last'.calls :
                                last'.calls[i] = "handleWebhookEvent"
          IN  /\ dispatched <=> verifies
              /\ dispatched =>
                    \E i, j \in DOMAIN last'.calls :
                        /\ i < j
                        /\ last'.calls[i] = "constructEvent"
                        /\ last'.calls[j] = "handleWebhookEvent"
              /\ ~verifies => /\ last'.kind = BadRequest
                              /\ \A i \in DOMAIN last'.calls :
                                    last'.calls[i] = "constructEvent"
              /\ verifies => /\ last'.kind = Ok
                             /\ last'.calls[Len(last'.calls)] = EventHandler(body)
              /\ (verifies /\ body = UnhandledEventType)
                    => last'.calls[Len(last'.calls)] = "logger.warn"]_vars

\* a request signed with another secret over a handled event was refused
\* before any handler
C23_ForgedSignatureRefused ==
    /\ last.op = WebhookEndpoint
    /\ last.arg[1] \in HandledEventTypes
    /\ last.arg[2] = Sign(OtherSecret, last.arg[1])
    /\ stripeConfig.webhookSecret = WebhookSecret
    /\ last.kind = BadRequest
    /\ CallIndex("constructEvent") = 1
    /\ CallIndex("handleWebhookEvent") = 0

====
